---- MODULE Spec2Model ----
(***************************************************************************)
(* GA4 Report Builder (src/app.py): one Streamlit script run.  A run       *)
(* authenticates, renders the input form, and, when "Generate Report" was  *)
(* pressed, validates the selection, builds the request body, calls        *)
(* runReport once and flattens the response into a table.                  *)
(***************************************************************************)
EXTENDS Integers, Sequences, FiniteSets, TLC

VARIABLES pc, configError, selected_dimensions, selected_metrics, date_range,
          channel_filter, device_filter, pressed, request_body, calls,
          response, exc, headers, rows, df, rendered

vars == <<pc, configError, selected_dimensions, selected_metrics, date_range,
          channel_filter, device_filter, pressed, request_body, calls,
          response, exc, headers, rows, df, rendered>>

(* ---------------------------- bounds ---------------------------------- *)

\* Largest number of rows in a backend response.
MaxRows == 1

(* ------------------------- input universes ---------------------------- *)

\* Two of the dimensions offered by the multiselect.
Dimensions == {"city", "country"}

\* Two of the metrics offered by the multiselect.
Metrics == {"sessions", "activeUsers"}

DeviceOptions == {"All", "Desktop", "Mobile", "Tablet"}

\* Text typed into the channel box: untouched, whitespace only, a real value.
ChannelTexts == {"", " ", "Organic Search"}

\* Calendar dates as <<year, month, day>>.
Dates == {<<2023, 12, 31>>, <<2024, 1, 7>>}

\* What st.date_input can hand back for a range picker: 0, 1 or 2 dates.
DateRanges == {<<>>} \cup {<<d>> : d \in Dates} \cup (Dates \X Dates)

\* str(e) of the exceptions the backend call can raise.
BackendErrors == {"quota exceeded", "permission denied"}

\* Values a response row can carry, by position.
DimensionValues == <<"US", "Lahore">>

MetricValues == <<"10", "25">>

\* st.secrets: which of the two required entries are present.
SecretsStates == [gcp_service_account : BOOLEAN, ga4_property_id : BOOLEAN]

NoValue == [none |-> TRUE]

\* A multiselect returns the chosen options, each once, in the order chosen.
Selections(S) ==
  {<<>>} \cup {<<a>> : a \in S} \cup {s \in S \X S : s[1] # s[2]}

Reverse(s) == [i \in 1..Len(s) |-> s[Len(s) + 1 - i]]

Last(s) == s[Len(s)]

(* ------------------------- date formatting ---------------------------- *)

Digits == <<"0", "1", "2", "3", "4", "5", "6", "7", "8", "9">>

\* Zero-padded decimal of n in w characters.
RECURSIVE Pad(_, _)
Pad(n, w) == IF w = 0 THEN <<>> ELSE Pad(n \div 10, w - 1) \o <<Digits[(n % 10) + 1]>>

\* date.strftime("%Y-%m-%d") as a sequence of characters.
Strftime(d) == Pad(d[1], 4) \o <<"-">> \o Pad(d[2], 2) \o <<"-">> \o Pad(d[3], 2)

\* Code point order of the characters a formatted date is made of.
Ord(c) == IF c = "-" THEN 45 ELSE 47 + CHOOSE i \in 1..10 : Digits[i] = c

\* Lexicographic s <= t on character sequences (Python str comparison).
RECURSIVE StrLeq(_, _)
StrLeq(s, t) ==
  IF s = <<>> THEN TRUE
  ELSE IF t = <<>> THEN FALSE
  ELSE IF Ord(Head(s)) # Ord(Head(t)) THEN Ord(Head(s)) < Ord(Head(t))
  ELSE StrLeq(Tail(s), Tail(t))

(* ------------------------- the report handler ------------------------- *)

\* The guard without its test of the metrics.
ValidatedIgnoringMetrics(dims, mets, dr) == ~(dims = <<>> \/ Len(dr) # 2)

\* The guard of line 83, negated: the selection may be sent.
Validated(dims, mets, dr) == ~(dims = <<>> \/ mets = <<>> \/ Len(dr) # 2)

DeviceCondition(dev) ==
  IF dev # "" /\ dev # "All"
  THEN <<[filter |-> [fieldName |-> "deviceCategory",
                       stringFilter |-> [value |-> dev]]]>>
  ELSE <<>>

ChannelCondition(ch) ==
  IF ch # ""
  THEN <<[filter |-> [fieldName |-> "sessionDefaultChannelGroup",
                       stringFilter |-> [value |-> ch]]]>>
  ELSE <<>>

AllFilters(ch, dev) == DeviceCondition(dev) \o ChannelCondition(ch)

RequestBase(dims, mets, dr) ==
  [dimensions |-> [i \in 1..Len(dims) |-> [name |-> dims[i]]],
   metrics    |-> [i \in 1..Len(mets) |-> [name |-> mets[i]]],
   dateRanges |-> <<[startDate |-> Strftime(dr[1]), endDate |-> Strftime(dr[2])]>>]

BuildRequest(dims, mets, dr, ch, dev) ==
  IF AllFilters(ch, dev) # <<>>
  THEN RequestBase(dims, mets, dr) @@
       [dimensionFilter |-> [andGroup |-> [expressions |-> AllFilters(ch, dev)]]]
  ELSE RequestBase(dims, mets, dr)

(* ------------------------- backend responses -------------------------- *)

EmptyDict == [k \in {} |-> <<>>]

\* A JSON member; a repeated field that is empty is left out of the dict.
Field(k, v) == IF v = <<>> THEN EmptyDict ELSE (k :> v)

\* dict.get(key, default)
Get(d, k, default) == IF k \in DOMAIN d THEN d[k] ELSE default

SeqsUpTo(S, n) == UNION {[1..k -> S] : k \in 0..n}

Prefixes(s) == {SubSeq(s, 1, k) : k \in 0..Len(s)}

Named(s) == [i \in 1..Len(s) |-> [name |-> s[i]]]

Valued(s) == [i \in 1..Len(s) |-> [value |-> s[i]]]

\* Header lists a response can carry for the names asked for: as asked,
\* in the opposite order, or none.
HeaderOrders(names) == {Named(names), Named(Reverse(names)), <<>>}

ResponseRows ==
  {Field("dimensionValues", Valued(dv)) @@ Field("metricValues", Valued(mv)) :
     dv \in Prefixes(DimensionValues), mv \in Prefixes(MetricValues)}

Responses(dims, mets) ==
  {Field("dimensionHeaders", dh) @@ Field("metricHeaders", mh) @@
   Field("rows", rs) @@ Field("samplingMetadatas", sm) :
     dh \in HeaderOrders(dims), mh \in HeaderOrders(mets),
     rs \in SeqsUpTo(ResponseRows, MaxRows), sm \in {<<>>, <<"sampled">>}}

(* ------------------------ response processing ------------------------- *)

Names(hs) == [i \in 1..Len(hs) |-> hs[i].name]

Values(vs) == [i \in 1..Len(vs) |-> vs[i].value]

\* Lines 129-130.
Headers(resp) ==
  Names(Get(resp, "dimensionHeaders", <<>>)) \o Names(Get(resp, "metricHeaders", <<>>))

\* The flattening with the two halves swapped.
RowValuesMetricsFirst(row) ==
  Values(Get(row, "metricValues", <<>>)) \o Values(Get(row, "dimensionValues", <<>>))

\* Lines 133-134.
RowValues(row) ==
  Values(Get(row, "dimensionValues", <<>>)) \o Values(Get(row, "metricValues", <<>>))

\* Lines 131-135.
Rows(resp) ==
  LET raw == Get(resp, "rows", <<>>)
  IN  [i \in 1..Len(raw) |-> RowValues(raw[i])]

Max(S) == CHOOSE m \in S : \A x \in S : x <= m

\* Width pandas gives a list of lists: that of its longest row.
Width(rs) == Max({0} \cup {Len(rs[i]) : i \in 1..Len(rs)})

\* pd.DataFrame(rows, columns=headers) raises when the widths disagree.
DataFrameRaises(rs, hs) == Width(rs) # Len(hs)

DataFrameError(rs, hs) ==
  ToString(Len(hs)) \o " columns passed, passed data had " \o
  ToString(Width(rs)) \o " columns"

\* pd.DataFrame(rows, columns=headers): short rows are filled with None.
DataFrame(rs, hs) ==
  [columns |-> hs,
   rows |-> [i \in 1..Len(rs) |->
               [j \in 1..Width(rs) |-> IF j <= Len(rs[i]) THEN rs[i][j] ELSE "None"]]]

(* ------------------------------ messages ------------------------------ *)

Message(kind, text) == [kind |-> kind, text |-> text]

AuthErrorText(e) == "Authentication Error: Please check your secrets. Error: " \o e

ValidationWarning ==
  Message("warning",
          "Please select at least one dimension, one metric, and a valid date range.")

SamplingWarning ==
  Message("warning",
          "Data is sampled, which may cause minor discrepancies with the GA4 interface.")

NoDataInfo == Message("info", "No data found for the selected criteria.")

ReportGenerated == Message("success", "Report Generated!")

\* The banner without the exception's text.
ReportErrorTextGeneric(e) == "An error occurred while running the report."

\* Line 145.
ReportErrorText(e) == "An error occurred while running the report: " \o e

(* ------------------------------ the run ------------------------------- *)

Init ==
  /\ pc = "start"
  /\ configError = FALSE
  /\ selected_dimensions = <<>>
  /\ selected_metrics = <<>>
  /\ date_range = <<>>
  /\ channel_filter = ""
  /\ device_filter = "All"
  /\ pressed = FALSE
  /\ request_body = NoValue
  /\ calls = 0
  /\ response = NoValue
  /\ exc = NoValue
  /\ headers = <<>>
  /\ rows = <<>>
  /\ df = NoValue
  /\ rendered = <<>>

\* The key st.secrets fails on, if any.
MissingSecret(s) ==
  IF ~s.gcp_service_account THEN "'gcp_service_account'"
  ELSE IF ~s.ga4_property_id THEN "'property_id'"
  ELSE ""

\* The block without st.stop(): the script goes on to the form.
AuthenticationWithoutStop ==
  /\ pc = "start"
  /\ \E s \in SecretsStates :
       IF MissingSecret(s) = ""
       THEN UNCHANGED <<configError, rendered>>
       ELSE /\ configError' = TRUE
            /\ rendered' = Append(rendered, Message("error", AuthErrorText(MissingSecret(s))))
  /\ pc' = "form"
  /\ UNCHANGED <<selected_dimensions, selected_metrics, date_range, channel_filter,
                 device_filter, pressed, request_body, calls, response, exc,
                 headers, rows, df>>

\* Lines 31-42: load the credentials or report and stop the script.
Authentication ==
  /\ pc = "start"
  /\ \E s \in SecretsStates :
       IF MissingSecret(s) = ""
       THEN /\ pc' = "form"
            /\ UNCHANGED <<configError, rendered>>
       ELSE /\ configError' = TRUE
            /\ rendered' = Append(rendered, Message("error", AuthErrorText(MissingSecret(s))))
            /\ pc' = "stopped"
  /\ UNCHANGED <<selected_dimensions, selected_metrics, date_range, channel_filter,
                 device_filter, pressed, request_body, calls, response, exc,
                 headers, rows, df>>

\* Lines 45-79: the widgets return the user's current choices.
UserInputForm ==
  /\ pc = "form"
  /\ selected_dimensions' \in Selections(Dimensions)
  /\ selected_metrics' \in Selections(Metrics)
  /\ date_range' \in DateRanges
  /\ channel_filter' \in ChannelTexts
  /\ device_filter' \in DeviceOptions
  /\ pc' = "button"
  /\ UNCHANGED <<configError, pressed, request_body, calls, response, exc,
                 headers, rows, df, rendered>>

\* Line 82, st.button returns False: the script ends.
NoButtonPress ==
  /\ pc = "button"
  /\ pc' = "done"
  /\ UNCHANGED <<configError, selected_dimensions, selected_metrics, date_range,
                 channel_filter, device_filter, pressed, request_body, calls,
                 response, exc, headers, rows, df, rendered>>

\* Lines 82-122: the button was pressed; warn, or build the body and call.
GenerateReport ==
  /\ pc = "button"
  /\ pressed' = TRUE
  /\ IF ~Validated(selected_dimensions, selected_metrics, date_range)
     THEN /\ rendered' = Append(rendered, ValidationWarning)
          /\ pc' = "done"
          /\ UNCHANGED <<request_body, calls>>
     ELSE /\ request_body' = BuildRequest(selected_dimensions, selected_metrics,
                                          date_range, channel_filter, device_filter)
          /\ calls' = calls + 1
          /\ pc' = "executing"
          /\ UNCHANGED rendered
  /\ UNCHANGED <<configError, selected_dimensions, selected_metrics, date_range,
                 channel_filter, device_filter, response, exc, headers, rows, df>>

\* Lines 122-142: execute() returns; flatten and render the response.
ExecuteReturns ==
  /\ pc = "executing"
  /\ \E resp \in Responses(selected_dimensions, selected_metrics) :
       LET hs == Headers(resp)
           rs == Rows(resp)
           sampling == IF Get(resp, "samplingMetadatas", <<>>) # <<>>
                       THEN <<SamplingWarning>> ELSE <<>>
       IN  /\ response' = resp
           /\ headers' = hs
           /\ rows' = rs
           /\ IF rs = <<>>
              THEN /\ rendered' = rendered \o sampling \o <<NoDataInfo>>
                   /\ UNCHANGED <<df, exc>>
              ELSE IF DataFrameRaises(rs, hs)
              THEN /\ exc' = [raisedBy |-> "DataFrame", text |-> DataFrameError(rs, hs)]
                   /\ rendered' = rendered \o sampling \o
                        <<Message("error", ReportErrorText(DataFrameError(rs, hs)))>>
                   /\ UNCHANGED df
              ELSE /\ df' = DataFrame(rs, hs)
                   /\ rendered' = rendered \o sampling \o
                        <<ReportGenerated, Message("dataframe", "df")>>
                   /\ UNCHANGED exc
  /\ pc' = "done"
  /\ UNCHANGED <<configError, selected_dimensions, selected_metrics, date_range,
                 channel_filter, device_filter, pressed, request_body, calls>>

\* The handler calling runReport a second time after a failure.
ExecuteRaisesWithRetry ==
  /\ pc = "executing"
  /\ \E e \in BackendErrors :
       /\ exc' = [raisedBy |-> "runReport", text |-> e]
       /\ rendered' = Append(rendered, Message("error", ReportErrorText(e)))
  /\ calls' = calls + 1
  /\ pc' = "done"
  /\ UNCHANGED <<configError, selected_dimensions, selected_metrics, date_range,
                 channel_filter, device_filter, pressed, request_body,
                 response, headers, rows, df>>

\* Lines 122, 144-145: execute() raises; the handler reports it.
ExecuteRaises ==
  /\ pc = "executing"
  /\ \E e \in BackendErrors :
       /\ exc' = [raisedBy |-> "runReport", text |-> e]
       /\ rendered' = Append(rendered, Message("error", ReportErrorText(e)))
  /\ pc' = "done"
  /\ UNCHANGED <<configError, selected_dimensions, selected_metrics, date_range,
                 channel_filter, device_filter, pressed, request_body, calls,
                 response, headers, rows, df>>

\* Streamlit runs the script again from the top on the next interaction.
Rerun ==
  /\ pc \in {"done", "stopped"}
  /\ pc' = "start"
  /\ configError' = FALSE
  /\ selected_dimensions' = <<>>
  /\ selected_metrics' = <<>>
  /\ date_range' = <<>>
  /\ channel_filter' = ""
  /\ device_filter' = "All"
  /\ pressed' = FALSE
  /\ request_body' = NoValue
  /\ calls' = 0
  /\ response' = NoValue
  /\ exc' = NoValue
  /\ headers' = <<>>
  /\ rows' = <<>>
  /\ df' = NoValue
  /\ rendered' = <<>>

Next ==
  \/ Authentication
  \/ UserInputForm
  \/ NoButtonPress
  \/ GenerateReport
  \/ ExecuteReturns
  \/ ExecuteRaises
  \/ Rerun

Spec == Init /\ [][Next]_vars

(* ------------------------------ properties ---------------------------- *)

Sent == request_body # NoValue

Expressions ==
  IF "dimensionFilter" \in DOMAIN request_body
  THEN request_body.dimensionFilter.andGroup.expressions
  ELSE <<>>

HasCondition(field) ==
  \E i \in 1..Len(Expressions) : Expressions[i].filter.fieldName = field

\* str.strip() == "" on the texts of ChannelTexts.
IsBlank(text) == text \in {"", " "}

\* The response has as many headers as names were asked for, and every row
\* one value per header.
WellFormed(resp, dims, mets) ==
  /\ Len(Get(resp, "dimensionHeaders", <<>>)) = Len(dims)
  /\ Len(Get(resp, "metricHeaders", <<>>)) = Len(mets)
  /\ \A i \in 1..Len(Get(resp, "rows", <<>>)) :
       /\ Len(Get(resp.rows[i], "dimensionValues", <<>>)) = Len(dims)
       /\ Len(Get(resp.rows[i], "metricValues", <<>>)) = Len(mets)

\* C1: a press with no dimension or no metric selected ends in the
\* validation warning; no request body is built and runReport is not called.
C1_EmptySelectionOnlyWarns ==
  (pressed /\ (selected_dimensions = <<>> \/ selected_metrics = <<>>)) =>
    /\ pc = "done"
    /\ rendered = <<ValidationWarning>>
    /\ ~Sent
    /\ calls = 0
    /\ response = NoValue

C1_Witness ==
  /\ pressed
  /\ selected_dimensions # <<>>
  /\ selected_metrics = <<>>
  /\ Len(date_range) = 2
  /\ rendered = <<ValidationWarning>>

\* C2: every request body handed to runReport has startDate <= endDate.
C2_NoInvertedRangeSent ==
  Sent => StrLeq(request_body.dateRanges[1].startDate,
                 request_body.dateRanges[1].endDate)

\* C3: the filter of the request is the AND of exactly the supplied
\* conditions: deviceCategory iff the device is not "All",
\* sessionDefaultChannelGroup iff the channel text is not blank, and no
\* dimensionFilter at all when neither is supplied.
C3_FilterIsAndOfSupplied ==
  Sent =>
    /\ HasCondition("deviceCategory") <=> device_filter # "All"
    /\ HasCondition("sessionDefaultChannelGroup") <=> ~IsBlank(channel_filter)
    /\ Len(Expressions) = (IF device_filter # "All" THEN 1 ELSE 0)
                          + (IF ~IsBlank(channel_filter) THEN 1 ELSE 0)
    /\ (device_filter = "All" /\ IsBlank(channel_filter))
         => "dimensionFilter" \notin DOMAIN request_body

\* C4: the columns of the rendered table are the requested dimensions in
\* submitted order followed by the requested metrics in submitted order,
\* whatever order the response lists its headers in.
C4_ColumnsFollowRequest ==
  df # NoValue => df.columns = selected_dimensions \o selected_metrics

\* C5: a response with zero rows yields the requested columns with an empty
\* row sequence, and the run ends in the "no data" information, not an error.
C5_ZeroRowsYieldEmptyTable ==
  (pc = "done" /\ response # NoValue /\ Get(response, "rows", <<>>) = <<>>) =>
    /\ headers = selected_dimensions \o selected_metrics
    /\ rows = <<>>
    /\ Last(rendered) = NoDataInfo
    /\ exc = NoValue

\* C6: a run whose credential or configuration load failed has stopped with
\* an error and never presses on: no request is built, runReport is not called.
C6_ConfigErrorStopsRun ==
  configError =>
    /\ pc = "stopped"
    /\ Last(rendered).kind = "error"
    /\ ~pressed
    /\ ~Sent
    /\ calls = 0

C6_Witness == configError /\ pc = "stopped" /\ Len(rendered) = 1

\* C7: when runReport raises, the run shows one error carrying the
\* exception's text unchanged, renders no table, and ends normally so that
\* the next run can start.
C7_BackendFailureSurfaced ==
  (exc # NoValue /\ exc.raisedBy = "runReport") =>
    /\ rendered = <<[kind |-> "error",
                     text |-> "An error occurred while running the report: " \o exc.text]>>
    /\ df = NoValue
    /\ pc = "done"
    /\ ENABLED Rerun

C7_Witness ==
  /\ exc # NoValue
  /\ exc.raisedBy = "runReport"
  /\ exc.text = "quota exceeded"
  /\ pc = "done"

\* C8: every request body handed to runReport carries a row limit of 1000.
C8_RequestCarriesRowLimit ==
  Sent => ("limit" \in DOMAIN request_body /\ request_body.limit = 1000)

\* C9: a press issues at most one runReport call, exactly one when the
\* validation passes and none when it does not; a failed call is not
\* repeated; nothing is rendered while the call is outstanding.
C9_OneCallPerPress ==
  /\ calls <= 1
  /\ (pc = "done" /\ pressed) =>
       calls = (IF selected_dimensions # <<>> /\ selected_metrics # <<>>
                   /\ Len(date_range) = 2 THEN 1 ELSE 0)
  /\ ~pressed => calls = 0
  /\ pc = "executing" => (calls = 1 /\ rendered = <<>> /\ df = NoValue)
  /\ (pressed /\ calls = 1 /\ rendered # <<>>) =>
       (pc = "done" /\ (response # NoValue \/ exc # NoValue))

C9_Witness ==
  /\ pc = "done"
  /\ pressed
  /\ calls = 1
  /\ exc # NoValue
  /\ exc.raisedBy = "runReport"

\* C10: for a well-formed response every row of the table is as long as the
\* column list, which is as long as the requested dimensions plus metrics,
\* and is the row's dimension values in order then its metric values in order.
C10_RowsMatchColumns ==
  (df # NoValue /\ WellFormed(response, selected_dimensions, selected_metrics)) =>
    /\ Len(df.columns) = Len(selected_dimensions) + Len(selected_metrics)
    /\ Len(df.rows) = Len(response.rows)
    /\ \A i \in 1..Len(df.rows) :
         /\ Len(df.rows[i]) = Len(df.columns)
         /\ \A j \in 1..Len(df.rows[i]) :
              df.rows[i][j] =
                IF j <= Len(selected_dimensions)
                THEN response.rows[i].dimensionValues[j].value
                ELSE response.rows[i].metricValues[j - Len(selected_dimensions)].value

C10_Witness ==
  /\ df # NoValue
  /\ WellFormed(response, selected_dimensions, selected_metrics)
  /\ Len(selected_dimensions) = 2
  /\ Len(selected_metrics) = 2
  /\ Len(df.rows) >= 1

====
